---- MODULE Spec2Model ----
(***************************************************************************)
(* Model of dowhy's distribution-change attribution                        *)
(* (src/dowhy/gcm/distribution_change.py).                                 *)
(*                                                                         *)
(* Data arrays are sequences of symbolic cells: the code never inspects a  *)
(* sample value, it only selects, stacks and hands rows to pluggable       *)
(* functions, so a cell is named by the data set, the row and the columns  *)
(* it came from.  Python's None is the empty tuple and a present value x   *)
(* is <<x>>.  Row and list indices are 1-based here, 0-based in the code.  *)
(***************************************************************************)
EXTENDS Integers, Sequences, FiniteSets, TLC

VARIABLES
    pc,                     \* position of the call being modelled
    target_original_data,   \* mechanism_change_test arguments
    target_new_data,
    parents_original_data,
    parents_new_data,
    test_call,              \* what one call of mechanism_change_test did
    parent_original_data,   \* _estimate_distribution_change_score arguments
    parent_new_data,
    max_num_evaluation_samples,
    early_stopping_percentage,
    joint_parent_samples,   \* the evaluation pool after subsampling
    result,                 \* the scorer's locals
    old_result,
    run,
    stopped,                \* the loop was left by the break of line 476
    difference_calls,       \* the calls of difference_estimation_func so far
    score,                  \* what the scorer returned
    api,                    \* the public function that was called
    graphs,                 \* the graph objects, by the name that holds them
    heap,                   \* the causal-mechanism objects, by identity
    target_node,
    graph_factory,          \* how the factory treats node attributes
    old_causal_models,      \* _estimate_marginal_distribution_change locals
    new_causal_models,
    evals,                  \* calls of attribution_set_function so far
    last_v,                 \* the last such call: its subset and its value
    v_nodes,                \* the local `nodes` of the last hybrid build
    hybrid_builds,          \* hybrid models built so far
    draw_samples_calls,     \* calls of draw_samples so far
    difference_fn_calls,    \* calls of difference_estimation_func by v
    shapley_values,         \* what estimate_shapley_values returned
    attributions,           \* the returned node -> contribution mapping
    old_data,               \* the two tables (original_data / new_data)
    new_data,
    auto_assignment_quality,
    fdr_control_method,
    screen_graph,           \* the graph the screener was handed
    all_p_values,           \* _check_significant_mechanism_change locals
    screen_calls,           \* its calls of mechanism_change_test
    screener_runs,          \* runs of the screener so far
    mechanism_changed_for_node,
    joint_data,             \* _fit_accounting_for_mechanism_change locals
    fit_index,
    fit_calls,              \* calls of fit_causal_model_of_target so far
    results,                \* estimate_distribution_change_scores locals
    scores_index,
    scores_calls,           \* its calls of difference_fn and of the scorer
    causal_model_original,  \* the scorer's mechanism argument
    scorer_target_new_data, \* the scorer's target_new_data argument
    estimator,              \* a RegressionEstimator: the fields of self
    build_model_calls,      \* calls of _build_model so far
    method_calls,           \* calls of its methods so far
    estimate                \* what its last call returned

testVars == <<target_original_data, target_new_data, parents_original_data,
              parents_new_data, test_call>>

scorerArgs == <<parent_original_data, parent_new_data,
                scorer_target_new_data, causal_model_original,
                max_num_evaluation_samples, early_stopping_percentage>>

scorerVars == <<scorerArgs, joint_parent_samples, result, old_result, run,
                stopped, difference_calls, score>>

attributionVars == <<old_causal_models, new_causal_models, evals, last_v,
                     v_nodes, hybrid_builds, draw_samples_calls,
                     difference_fn_calls, shapley_values, attributions>>

modelVars == <<api, graphs, heap, target_node, graph_factory>>

dataVars == <<old_data, new_data, auto_assignment_quality,
              fdr_control_method>>

screenVars == <<screen_graph, all_p_values, screen_calls, screener_runs,
                mechanism_changed_for_node>>

fitVars == <<joint_data, fit_index, fit_calls>>

scoresVars == <<results, scores_index, scores_calls>>

regressionVars == <<estimator, build_model_calls, method_calls, estimate>>

vars == <<pc, testVars, scorerVars, modelVars, attributionVars, dataVars,
          screenVars, fitVars, scoresVars, regressionVars>>

----------------------------------------------------------------------------
(* Bounds and input sets *)

\* Largest number of rows of a data set.
MaxRows == 3

\* p-values (in percent) a pluggable independence test may return.
PValues == {1, 4, 5, 30}

\* Largest number of rows of each parent sample handed to the local scorer.
MaxParentRows == 2

\* Largest max_num_evaluation_samples tried.
MaxEvaluationSamples == 3

\* Values difference_estimation_func may return.
DiffValues == {-1, 0, 1, 3}

\* early_stopping_percentage, in hundredths (1 is the default 0.01).
EarlyStoppingPercentages == {-50, 1, 50}

None == <<>>

Some(x) == <<x>>

IsNone(o) == o = <<>>

\* The injective sequences of length k over 1..n: the outcomes of
\* np.random.choice(n, k, replace=False).
RandomChoice_WithReplacement(n, k) == [1..k -> 1..n]

RandomChoice(n, k) ==
    {s \in [1..k -> 1..n] : \A i, j \in 1..k : s[i] = s[j] => i = j}

Min(a, b) == IF a <= b THEN a ELSE b

\* Rows 1..n of data set `src` restricted to the columns `cols`.
Column(src, n, cols) == [i \in 1..n |-> [src |-> src, row |-> i, cols |-> cols]]

\* a[indices]: numpy's selection of rows by an index array.
Take(a, indices) == [k \in 1..Len(indices) |-> a[indices[k]]]

----------------------------------------------------------------------------
(* mechanism_change_test *)

\* np.ones(2n); [n:] = -1; astype(str): float labels rendered as strings.
DataSetIndices(n) == [k \in 1..(2 * n) |-> IF k <= n THEN "1.0" ELSE "-1.0"]

NoTestCall ==
    [raised |-> "", choice_calls |-> 0, original_indices |-> <<>>,
     new_indices |-> <<>>, independence_calls |-> <<>>,
     conditional_calls |-> <<>>, result |-> None]

\* The guard of lines 66-69: parent data for exactly one regime.
AsymmetricParents_NewOnlyUnchecked(pod, pnd) == ~IsNone(pod) /\ IsNone(pnd)

AsymmetricParents(pod, pnd) ==
    \/ ~IsNone(pod) /\ IsNone(pnd)
    \/ IsNone(pod) /\ ~IsNone(pnd)

\* The value handed back for the p-value p the invoked test produced.
ReturnedPValue_Complement(p) == 100 - p

ReturnedPValue(p) == p

\* Lines 87-89: the parents' rows of the drawn indices, old ones first.
JointParentData_Undrawn(pod, pnd, original_indices, new_indices) ==
    SubSeq(pod, 1, Len(original_indices)) \o SubSeq(pnd, 1, Len(new_indices))

JointParentData(pod, pnd, original_indices, new_indices) ==
    Take(pod, original_indices) \o Take(pnd, new_indices)

\* One whole call.  original_indices and new_indices are the two draws of
\* np.random.choice, p the p-value the invoked test function answers.
mechanism_change_test(tod, tnd, pod, pnd, original_indices, new_indices, p) ==
    IF AsymmetricParents(pod, pnd)
    THEN [NoTestCall EXCEPT !.raised = "ValueError"]
    ELSE
      LET num_samples_for_testing == Min(Len(tod), Len(tnd))
          data_set_indices == DataSetIndices(num_samples_for_testing)
          joint_target_samples ==
              Take(tod, original_indices) \o Take(tnd, new_indices)
      IN  IF IsNone(pod)
          THEN [NoTestCall EXCEPT
                  !.choice_calls = 2,
                  !.original_indices = original_indices,
                  !.new_indices = new_indices,
                  !.independence_calls =
                      <<[X |-> joint_target_samples, Y |-> data_set_indices,
                         p |-> p]>>,
                  !.result = Some(ReturnedPValue(p))]
          ELSE
            LET joint_parent_data ==
                    JointParentData(pod[1], pnd[1], original_indices,
                                    new_indices)
            IN  [NoTestCall EXCEPT
                  !.choice_calls = 2,
                  !.original_indices = original_indices,
                  !.new_indices = new_indices,
                  !.conditional_calls =
                      <<[X |-> joint_target_samples, Y |-> data_set_indices,
                         Z |-> joint_parent_data, p |-> p]>>,
                  !.result = Some(ReturnedPValue(p))]

IdleTest ==
    /\ target_original_data = <<>>
    /\ target_new_data = <<>>
    /\ parents_original_data = None
    /\ parents_new_data = None
    /\ test_call = NoTestCall

IdleScorer ==
    /\ parent_original_data = <<>>
    /\ parent_new_data = <<>>
    /\ scorer_target_new_data = <<>>
    /\ causal_model_original = 0
    /\ max_num_evaluation_samples = 0
    /\ early_stopping_percentage = 0
    /\ joint_parent_samples = <<>>
    /\ result = 0
    /\ old_result = 0
    /\ run = 0
    /\ stopped = FALSE
    /\ difference_calls = <<>>
    /\ score = None

NoGraphs ==
    [caller |-> None, old |-> None, new |-> None, hybrid |-> None]

NoSetFunctionCall == [subset |-> <<>>, value |-> 0]

IdleAttribution ==
    /\ old_causal_models = <<>>
    /\ new_causal_models = <<>>
    /\ evals = 0
    /\ last_v = NoSetFunctionCall
    /\ v_nodes = <<>>
    /\ hybrid_builds = 0
    /\ draw_samples_calls = 0
    /\ difference_fn_calls = 0
    /\ shapley_values = <<>>
    /\ attributions = None

IdleData ==
    /\ old_data = None
    /\ new_data = None
    /\ auto_assignment_quality = None
    /\ fdr_control_method = None

IdleScreen ==
    /\ screen_graph = ""
    /\ all_p_values = <<>>
    /\ screen_calls = <<>>
    /\ screener_runs = 0
    /\ mechanism_changed_for_node = None

IdleFit ==
    /\ joint_data = None
    /\ fit_index = 0
    /\ fit_calls = <<>>

IdleScores ==
    /\ results = <<>>
    /\ scores_index = 0
    /\ scores_calls = <<>>

IdlePipeline == IdleData /\ IdleScreen /\ IdleFit /\ IdleScores

\* Lines 40-54: the estimator as __init__ leaves it.
NewEstimator ==
    [data |-> None, model |-> None, treatment_value |-> None,
     control_value |-> None]

IdleRegression ==
    /\ estimator = NewEstimator
    /\ build_model_calls = 0
    /\ method_calls = 0
    /\ estimate = None

IdleModel ==
    /\ api = ""
    /\ graphs = NoGraphs
    /\ heap = <<>>
    /\ target_node = 0
    /\ graph_factory = ""

\* A caller's arguments: target samples of both regimes and, optionally and
\* independently for each regime, the row-aligned parent samples.
InitTest ==
    /\ IdleScorer
    /\ IdleModel
    /\ IdleAttribution
    /\ IdlePipeline
    /\ pc = "mechanism_change_test"
    /\ \E n \in 1..MaxRows : target_original_data = Column("old", n, <<"y">>)
    /\ \E n \in 1..MaxRows : target_new_data = Column("new", n, <<"y">>)
    /\ parents_original_data \in
          {None, Some(Column("old", Len(target_original_data), <<"x">>))}
    /\ parents_new_data \in
          {None, Some(Column("new", Len(target_new_data), <<"x">>))}
    /\ test_call = NoTestCall
    /\ IdleRegression

MechanismChangeTest ==
    /\ pc = "mechanism_change_test"
    /\ LET n == Min(Len(target_original_data), Len(target_new_data))
       IN  \E original_indices \in RandomChoice(Len(target_original_data), n),
              new_indices \in RandomChoice(Len(target_new_data), n),
              p \in PValues :
                test_call' = mechanism_change_test(
                    target_original_data, target_new_data,
                    parents_original_data, parents_new_data,
                    original_indices, new_indices, p)
    /\ pc' = "returned"
    /\ UNCHANGED <<target_original_data, target_new_data,
                   parents_original_data, parents_new_data>>
    /\ UNCHANGED <<scorerVars, modelVars, attributionVars, dataVars,
                   screenVars, fitVars, scoresVars>>
    /\ UNCHANGED regressionVars

NextTest == MechanismChangeTest

SpecTest == InitTest /\ [][NextTest]_vars

----------------------------------------------------------------------------
(* _estimate_distribution_change_score: the local scorer *)

\* Line 470, with early_stopping_percentage in hundredths and the division
\* cleared: old_result != 0 and (1 - result / old_result) <= percentage.
EarlyStop_Absolute(old, new, pct) ==
    /\ old # 0
    /\ (IF old >= new THEN old - new ELSE new - old) * 100
          <= pct * (IF old >= 0 THEN old ELSE -old)

EarlyStop(old, new, pct) ==
    /\ old # 0
    /\ IF old > 0
       THEN (old - new) * 100 <= pct * old
       ELSE (old - new) * 100 >= pct * old

\* Line 465: result += difference_estimation_func(...).
Accumulate_Overwrite(sum, d) == d

Accumulate(sum, d) == sum + d

\* Line 478: result / run, kept as the fraction num / den.
Quotient(num, den) == [num |-> num, den |-> den]

InitScorer ==
    /\ IdleTest
    /\ IdleAttribution
    /\ IdlePipeline
    /\ api = "_estimate_distribution_change_score"
    /\ graphs = NoGraphs
    /\ target_node = 0
    /\ graph_factory = ""
    /\ pc = "score_start"
    /\ \E n \in 1..MaxParentRows :
          parent_original_data = Column("old", n, <<"x">>)
    /\ \E n \in 1..MaxParentRows :
          parent_new_data = Column("new", n, <<"x">>)
    /\ scorer_target_new_data = Column("new", Len(parent_new_data), <<"y">>)
    /\ heap = <<[fit |-> Some([X |-> parent_original_data,
                               Y |-> Some(Column("old",
                                                 Len(parent_original_data),
                                                 <<"y">>))])]>>
    /\ causal_model_original = 1
    /\ max_num_evaluation_samples \in 0..MaxEvaluationSamples
    /\ early_stopping_percentage \in EarlyStoppingPercentages
    /\ joint_parent_samples = <<>>
    /\ result = 0
    /\ old_result = 0
    /\ run = 0
    /\ stopped = FALSE
    /\ difference_calls = <<>>
    /\ score = None
    /\ IdleRegression

\* Lines 446-460: a clone of the mechanism is fitted on the new data; the
\* pool is stacked and subsampled without replacement.
ScorerStart ==
    /\ pc = "score_start"
    /\ heap' = Append(heap, [fit |-> Some([X |-> parent_new_data,
                                          Y |-> Some(scorer_target_new_data)])])
    /\ LET stacked == parent_original_data \o parent_new_data
           k == Min(Len(stacked), max_num_evaluation_samples)
       IN  \E choice \in RandomChoice(Len(stacked), k) :
              joint_parent_samples' = Take(stacked, choice)
    /\ result' = 0
    /\ run' = 0
    /\ old_result' = 0
    /\ stopped' = FALSE
    /\ difference_calls' = <<>>
    /\ pc' = "score_loop"
    /\ UNCHANGED <<scorerArgs, score, testVars>>
    /\ UNCHANGED <<api, graphs, target_node, graph_factory, attributionVars,
                   dataVars, screenVars, fitVars, scoresVars>>
    /\ UNCHANGED regressionVars

\* Lines 461-476: one iteration of the loop over the pool.
ScorerRow ==
    /\ pc = "score_loop"
    /\ ~stopped
    /\ run < Len(joint_parent_samples)
    /\ \E d \in DiffValues :
          /\ old_result' = result
          /\ result' = Accumulate(result, d)
          /\ difference_calls' =
                Append(difference_calls,
                       [row |-> joint_parent_samples[run + 1], value |-> d])
          /\ stopped' =
                EarlyStop(result, Accumulate(result, d),
                          early_stopping_percentage)
    /\ run' = run + 1
    /\ UNCHANGED <<pc, scorerArgs, joint_parent_samples, score, testVars>>
    /\ UNCHANGED <<modelVars, attributionVars, dataVars, screenVars, fitVars,
                   scoresVars>>
    /\ UNCHANGED regressionVars

\* Line 478, reached by the break or by exhausting the pool.  With no row
\* processed 0 / 0 raises ZeroDivisionError.
ScorerReturn ==
    /\ pc = "score_loop"
    /\ stopped \/ run = Len(joint_parent_samples)
    /\ IF run = 0
       THEN /\ pc' = "ZeroDivisionError"
            /\ score' = None
       ELSE /\ pc' = "score_returned"
            /\ score' = Some(Quotient(result, run))
    /\ UNCHANGED <<scorerArgs, joint_parent_samples, result, old_result, run,
                   stopped, difference_calls, testVars>>
    /\ UNCHANGED <<modelVars, attributionVars, dataVars, screenVars, fitVars,
                   scoresVars>>
    /\ UNCHANGED regressionVars

NextScorer == ScorerStart \/ ScorerRow \/ ScorerReturn

SpecScorer == InitScorer /\ [][NextScorer]_vars

----------------------------------------------------------------------------
(* Graphs, causal models and mechanisms *)

Range(f) == {f[i] : i \in DOMAIN f}

\* The position of x in the list s.
IndexOf(s, x) == CHOOSE i \in 1..Len(s) : s[i] = x

\* Python's sorted() on node identifiers.
sorted(s) == SortSeq(s, LAMBDA a, b : a < b)

Reverse(s) == [i \in 1..Len(s) |-> s[Len(s) + 1 - i]]

NoAttributes == [CAUSAL_MECHANISM |-> None, PARENTS_DURING_FIT |-> None]

\* A graph object: its nodes in iteration order, each node's predecessors
\* in declared order, and each node's attribute dictionary.
Graph(nodes, parents) ==
    [nodes |-> nodes, parents |-> parents,
     attr |-> [n \in Range(nodes) |-> NoAttributes]]

\* The causal structures tried: a chain, a collider whose parents are
\* declared out of order, a fork with a node that is no ancestor of the
\* others, each iterated in an order that is not the sorted one, and a
\* cycle.
Structures ==
    { Graph(<<1, 2, 3>>, <<<<>>, <<1>>, <<2>>>>),
      Graph(<<3, 1, 2>>, <<<<>>, <<1>>, <<2>>>>),
      Graph(<<2, 3, 1>>, <<<<>>, <<>>, <<2, 1>>>>),
      Graph(<<2, 1, 3>>, <<<<2>>, <<>>, <<2>>>>),
      Graph(<<2, 1>>, <<<<2>>, <<>>>>),
      Graph(<<1, 2>>, <<<<2>>, <<1>>>>) }

get_ordered_predecessors(g, node) == g.parents[node]

is_root_node(g, node) == g.parents[node] = <<>>

RECURSIVE AncestorsWithin(_, _, _)
AncestorsWithin(g, S, k) ==
    IF k = 0 THEN S
    ELSE AncestorsWithin(g, S \cup UNION {Range(g.parents[m]) : m \in S},
                         k - 1)

\* The nodes with a path of at least one edge to `node`.
Ancestors(g, node) ==
    AncestorsWithin(g, Range(g.parents[node]), Len(g.nodes))

IsDAG(g) == \A n \in Range(g.nodes) : n \notin Ancestors(g, n)

\* validate_causal_dag raises on a graph that is no DAG.
validate_causal_dag(g) == IsDAG(g)

\* The subgraph induced by the nodes with a path to `node` (itself
\* included); a view: it has the attribute dictionaries of g itself.
node_connected_subgraph_view(g, node) ==
    LET keep == {n \in Range(g.nodes) : n = node \/ n \in Ancestors(g, node)}
    IN  [nodes |-> SelectSeq(g.nodes, LAMBDA n : n \in keep),
         parents |-> [n \in keep |->
                        SelectSeq(g.parents[n], LAMBDA m : m \in keep)],
         attr |-> [n \in keep |-> g.attr[n]]]

\* graph_factory(g): a new graph with the nodes and edges of g; whether a
\* node's attributes are copied too (as networkx.DiGraph does, into a
\* dictionary of the copy's own) is the factory's choice.
GraphFactoryKinds == {"copies_attributes", "nodes_and_edges_only"}

GraphCopy(kind, g) ==
    IF kind = "copies_attributes" THEN g
    ELSE [g EXCEPT !.attr = [n \in DOMAIN g.attr |-> NoAttributes]]

causal_mechanism(g, node) == g.attr[node].CAUSAL_MECHANISM[1]

MechanismsOf(g) ==
    {g.attr[n].CAUSAL_MECHANISM[1] :
        n \in {m \in DOMAIN g.attr : ~IsNone(g.attr[m].CAUSAL_MECHANISM)}}

\* A table of n rows of data set `src` with the given columns.
DataFrame(src, n, columns) ==
    [rows |-> [i \in 1..n |-> [src |-> src, row |-> i]], columns |-> columns]

\* df[cols].to_numpy()
ToNumpy(df, cols) ==
    [i \in 1..Len(df.rows) |->
        [src |-> df.rows[i].src, row |-> df.rows[i].row, cols |-> cols]]

\* What fit_causal_model_of_target hands to the mechanism's fit: the
\* node's own column for a root, otherwise X = the ordered parents' columns
\* and Y = the node's column.
TrainingData(g, node, df) ==
    IF is_root_node(g, node)
    THEN [X |-> ToNumpy(df, <<node>>), Y |-> None]
    ELSE [X |-> ToNumpy(df, get_ordered_predecessors(g, node)),
          Y |-> Some(ToNumpy(df, <<node>>))]

Fitted(training) == [fit |-> Some(training)]

Unfitted == [fit |-> None]

\* A model over structure s whose node nodes[i] holds mechanism first + i,
\* with the parent order of its fit recorded.
FittedModel(s, first) ==
    [s EXCEPT !.attr =
        [n \in DOMAIN s.attr |->
            [CAUSAL_MECHANISM |-> Some(first + IndexOf(s.nodes, n)),
             PARENTS_DURING_FIT |-> Some(get_ordered_predecessors(s, n))]]]

FittedMechanisms(s, src) ==
    [i \in 1..Len(s.nodes) |->
        Fitted(TrainingData(s, s.nodes[i], DataFrame(src, 1, s.nodes)))]

----------------------------------------------------------------------------
(* distribution_change_of_graphs and _estimate_marginal_distribution_change *)

\* Largest number of calls of the set function by the Shapley estimator.
MaxEvals == 2

\* Components the Shapley estimator may return.
ShapleyComponents == {0, 7}

\* Values difference_estimation_func may return for a coalition.
CoalitionValues == {0, 3}

\* Line 295: the graph object the set function assigns mechanisms to is the
\* factory's new copy, not the graph of causal_model_old.
HybridGraph_NoCopy == "old"

HybridGraph == "hybrid"

\* Lines 296 and 298-302: position i of the coalition is node nodes[i].
HybridNodes_Iteration(g) == g.nodes

HybridNodes(g) == sorted(g.nodes)

\* Line 313: the order the components are handed out in.
ResultOrder_Iteration(g) == g.nodes

ResultOrder(g) == sorted(g.nodes)

\* Line 292: np.all(subset == 0).
AllZero_NoShortCut(subset) == FALSE

AllZero(subset) == \A i \in 1..Len(subset) : subset[i] = 0

InitGraphs ==
    /\ IdleTest
    /\ IdleScorer
    /\ IdleAttribution
    /\ IdlePipeline
    /\ pc = "distribution_change_of_graphs"
    /\ api = "distribution_change_of_graphs"
    /\ graph_factory \in GraphFactoryKinds
    /\ \E s \in Structures :
        \E new_nodes \in {s.nodes, Reverse(s.nodes)} :
          LET s_new == [s EXCEPT !.nodes = new_nodes]
              n == Len(s.nodes)
          IN  /\ graphs = [NoGraphs EXCEPT
                             !.old = Some(FittedModel(s, 0)),
                             !.new = Some(FittedModel(s_new, n))]
              /\ heap = FittedMechanisms(s, "old")
                           \o FittedMechanisms(s_new, "new")
              /\ target_node \in Range(s.nodes)
    /\ IdleRegression

\* Lines 230-241 and 286-289: validation, the two views restricted to the
\* target's ancestors, the two mechanism lists and the baseline samples.
DistributionChangeOfGraphs ==
    /\ pc = "distribution_change_of_graphs"
    /\ IF validate_causal_dag(graphs.old[1])
          /\ validate_causal_dag(graphs.new[1])
       THEN LET causal_model_old ==
                    node_connected_subgraph_view(graphs.old[1], target_node)
                causal_model_new ==
                    node_connected_subgraph_view(graphs.new[1], target_node)
            IN  /\ old_causal_models' =
                      [i \in 1..Len(causal_model_old.nodes) |->
                          causal_mechanism(causal_model_old,
                                           sorted(causal_model_old.nodes)[i])]
                /\ new_causal_models' =
                      [i \in 1..Len(causal_model_new.nodes) |->
                          causal_mechanism(causal_model_new,
                                           sorted(causal_model_new.nodes)[i])]
                /\ draw_samples_calls' = draw_samples_calls + 1
                /\ pc' = "estimate_shapley_values"
       ELSE /\ pc' = "raised"
            /\ UNCHANGED <<old_causal_models, new_causal_models,
                           draw_samples_calls>>
    /\ UNCHANGED <<evals, last_v, v_nodes, hybrid_builds,
                   difference_fn_calls, shapley_values, attributions>>
    /\ UNCHANGED <<modelVars, testVars, scorerVars, dataVars, screenVars,
                   fitVars, scoresVars>>
    /\ UNCHANGED regressionVars

\* Lines 291-309: one call of attribution_set_function by the estimator.
AttributionSetFunction ==
    /\ pc = "estimate_shapley_values"
    /\ evals < MaxEvals
    /\ evals' = evals + 1
    /\ \E subset \in [1..Len(old_causal_models) -> {0, 1}] :
          IF AllZero(subset)
          THEN /\ last_v' = [subset |-> subset, value |-> 0]
               /\ UNCHANGED <<graphs, v_nodes, hybrid_builds,
                              draw_samples_calls, difference_fn_calls>>
          ELSE
            LET causal_model_old ==
                    node_connected_subgraph_view(graphs.old[1], target_node)
                copy == GraphCopy(graph_factory, causal_model_old)
                nodes == HybridNodes(copy)
                assigned ==
                    [n \in DOMAIN copy.attr |->
                        IF \E i \in 1..Len(old_causal_models) : nodes[i] = n
                        THEN LET i == IndexOf(nodes, n)
                             IN  Some(IF subset[i] = 1
                                      THEN new_causal_models[i]
                                      ELSE old_causal_models[i])
                        ELSE copy.attr[n].CAUSAL_MECHANISM]
                written ==
                    [n \in DOMAIN copy.attr |->
                        [CAUSAL_MECHANISM |-> assigned[n],
                         PARENTS_DURING_FIT |->
                            Some(get_ordered_predecessors(copy, n))]]
                \* the object written to: the new copy, or an existing
                \* graph seen through the view
                target ==
                    IF HybridGraph = "hybrid"
                    THEN [copy EXCEPT !.attr = written]
                    ELSE [graphs[HybridGraph][1] EXCEPT !.attr =
                            [n \in DOMAIN @ |->
                                IF n \in DOMAIN written
                                THEN written[n] ELSE @[n]]]
            IN  /\ graphs' = [graphs EXCEPT ![HybridGraph] = Some(target)]
                /\ v_nodes' = nodes
                /\ hybrid_builds' = hybrid_builds + 1
                /\ draw_samples_calls' = draw_samples_calls + 1
                /\ difference_fn_calls' = difference_fn_calls + 1
                /\ \E d \in CoalitionValues :
                      last_v' = [subset |-> subset, value |-> d]
    /\ UNCHANGED <<pc, api, heap, target_node, graph_factory,
                   old_causal_models, new_causal_models, shapley_values,
                   attributions>>
    /\ UNCHANGED <<testVars, scorerVars, dataVars, screenVars, fitVars,
                   scoresVars>>
    /\ UNCHANGED regressionVars

\* Lines 311-313: the estimator's vector, one component per player, handed
\* out to the nodes.
ShapleyReturn ==
    /\ pc = "estimate_shapley_values"
    /\ \E phi \in [1..Len(old_causal_models) -> ShapleyComponents] :
          LET causal_model_old ==
                  node_connected_subgraph_view(graphs.old[1], target_node)
              order == ResultOrder(causal_model_old)
          IN  /\ shapley_values' = phi
              /\ attributions' =
                    Some([x \in Range(order) |-> phi[IndexOf(order, x)]])
    /\ pc' = "attributions_returned"
    /\ UNCHANGED <<old_causal_models, new_causal_models, evals, last_v,
                   v_nodes, hybrid_builds, draw_samples_calls,
                   difference_fn_calls>>
    /\ UNCHANGED <<modelVars, testVars, scorerVars, dataVars, screenVars,
                   fitVars, scoresVars>>
    /\ UNCHANGED regressionVars

NextGraphs ==
    \/ DistributionChangeOfGraphs
    \/ AttributionSetFunction
    \/ ShapleyReturn

SpecGraphs == InitGraphs /\ [][NextGraphs]_vars

----------------------------------------------------------------------------
(* _check_significant_mechanism_change *)

\* Line 103 (and 328): the default significance level, in percent like
\* PValues.
mechanism_change_test_significance_level == 5

\* statsmodels' multipletests(pvals, alpha, method="fdr_bh")[0], the
\* Benjamini-Hochberg step-up: with the p-values sorted increasingly, every
\* hypothesis up to the last rank k with p_(k) <= (k / m) * alpha is
\* rejected.
multipletests(pvals, alpha) ==
    LET m == Len(pvals)
        pvals_sorted == SortSeq(pvals, LAMBDA a, b : a < b)
        passing == {k \in 1..m : pvals_sorted[k] * m <= k * alpha}
    IN  [i \in 1..m |-> \E k \in passing : pvals[i] <= pvals_sorted[k]]

\* multipletests divides by the number of p-values (1. / ntests with
\* ntests = len(pvals)) before it looks at the method: an empty list raises
\* ZeroDivisionError.
multipletests_raises(pvals) == Len(pvals) = 0

\* Lines 428-431.
Successes_AlwaysCorrected(pvals, significance_level, fdr) ==
    multipletests(pvals, significance_level)

Successes(pvals, significance_level, fdr) ==
    IF IsNone(fdr)
    THEN [i \in 1..Len(pvals) |-> pvals[i] <= significance_level]
    ELSE multipletests(pvals, significance_level)

\* dict(zip(keys, values))
dict_zip(keys, values) ==
    [n \in Range(keys) |-> values[IndexOf(keys, n)]]

\* Lines 416-426: the columns handed to mechanism_change_test for a node.
ScreenerArguments_SortedParents(graph, node, old, new) ==
    [node |-> node,
     target_original_data |-> ToNumpy(old, <<node>>),
     target_new_data |-> ToNumpy(new, <<node>>),
     parents_original_data |->
        IF is_root_node(graph, node) THEN None
        ELSE Some(ToNumpy(old, sorted(get_ordered_predecessors(graph, node)))),
     parents_new_data |->
        IF is_root_node(graph, node) THEN None
        ELSE Some(ToNumpy(new, sorted(get_ordered_predecessors(graph, node))))]

ScreenerArguments(graph, node, old, new) ==
    [node |-> node,
     target_original_data |-> ToNumpy(old, <<node>>),
     target_new_data |-> ToNumpy(new, <<node>>),
     parents_original_data |->
        IF is_root_node(graph, node) THEN None
        ELSE Some(ToNumpy(old, get_ordered_predecessors(graph, node))),
     parents_new_data |->
        IF is_root_node(graph, node) THEN None
        ELSE Some(ToNumpy(new, get_ordered_predecessors(graph, node)))]

\* Lines 409-426: one turn of the loop over graph.nodes.
ScreenNode ==
    /\ pc = "screen"
    /\ Len(all_p_values) < Len(graphs[screen_graph][1].nodes)
    /\ LET graph == graphs[screen_graph][1]
           node == graph.nodes[Len(all_p_values) + 1]
           args == ScreenerArguments(graph, node, old_data[1], new_data[1])
           n == Min(Len(args.target_original_data),
                    Len(args.target_new_data))
       IN  \E original_indices \in
                 RandomChoice(Len(args.target_original_data), n),
              new_indices \in RandomChoice(Len(args.target_new_data), n),
              p \in PValues :
             LET call == mechanism_change_test(args.target_original_data,
                                               args.target_new_data,
                                               args.parents_original_data,
                                               args.parents_new_data,
                                               original_indices,
                                               new_indices, p)
             IN  /\ all_p_values' = Append(all_p_values, call.result[1])
                 /\ screen_calls' =
                       Append(screen_calls,
                              [args |-> args,
                               test |-> IF call.conditional_calls # <<>>
                                        THEN "conditional_independence_test"
                                        ELSE "independence_test"])
    /\ UNCHANGED <<pc, screen_graph, screener_runs,
                   mechanism_changed_for_node>>
    /\ UNCHANGED <<testVars, scorerVars, modelVars, attributionVars,
                   dataVars, fitVars, scoresVars>>
    /\ UNCHANGED regressionVars

\* Lines 428-433: the decisions, keyed by node.
ScreenDecide ==
    /\ pc = "screen"
    /\ Len(all_p_values) = Len(graphs[screen_graph][1].nodes)
    /\ IF ~IsNone(fdr_control_method) /\ multipletests_raises(all_p_values)
       THEN /\ pc' = "ZeroDivisionError"
            /\ UNCHANGED mechanism_changed_for_node
       ELSE /\ mechanism_changed_for_node' =
                  Some(dict_zip(graphs[screen_graph][1].nodes,
                                Successes(all_p_values,
                                    mechanism_change_test_significance_level,
                                    fdr_control_method)))
            /\ pc' = "screened"
    /\ UNCHANGED <<screen_graph, all_p_values, screen_calls, screener_runs>>
    /\ UNCHANGED <<testVars, scorerVars, modelVars, attributionVars,
                   dataVars, fitVars, scoresVars>>
    /\ UNCHANGED regressionVars

----------------------------------------------------------------------------
(* distribution_change and _fit_accounting_for_mechanism_change *)

\* Numbers of rows of the old table; the new one has the other number.
RowCounts == {1, 2}

\* The three-node DAGs whose iteration order is not the sorted one.
ChangeStructures ==
    {s \in Structures :
        IsDAG(s) /\ Len(s.nodes) = 3 /\ s.nodes # sorted(s.nodes)}

\* clone_causal_models(source, destination): every node of the
\* destination whose source node has a mechanism gets a clone of it, an
\* object of its own holding a copy of the source object's state.
clone_causal_models(h, source, destination) ==
    LET cloned == SelectSeq(destination.nodes,
                            LAMBDA n : ~IsNone(source.attr[n].CAUSAL_MECHANISM))
    IN  [heap |-> h \o [k \in 1..Len(cloned) |->
                           h[causal_mechanism(source, cloned[k])]],
         graph |-> [destination EXCEPT !.attr =
                      [n \in DOMAIN @ |->
                          IF n \in Range(cloned)
                          THEN [@[n] EXCEPT !.CAUSAL_MECHANISM =
                                   Some(Len(h) + IndexOf(cloned, n))]
                          ELSE @[n]]]]

\* assign_causal_mechanisms(model, data, override_models=True): every node
\* gets a new, unfitted mechanism.
assign_causal_mechanisms(h, destination) ==
    [heap |-> h \o [k \in 1..Len(destination.nodes) |-> Unfitted],
     graph |-> [destination EXCEPT !.attr =
                  [n \in DOMAIN @ |->
                      [@[n] EXCEPT !.CAUSAL_MECHANISM =
                          Some(Len(h) + IndexOf(destination.nodes, n))]]]]

\* Lines 158-161 and 165-168: how a copy's mechanisms are set.
AssignMechanisms_SourceObjects(h, source, destination, auto) ==
    [heap |-> h,
     graph |-> [destination EXCEPT !.attr =
                  [n \in DOMAIN @ |->
                      [@[n] EXCEPT !.CAUSAL_MECHANISM =
                          source.attr[n].CAUSAL_MECHANISM]]]]

AssignMechanisms(h, source, destination, auto) ==
    IF IsNone(auto)
    THEN clone_causal_models(h, source, destination)
    ELSE assign_causal_mechanisms(h, destination)

\* Line 264: pd.concat([old_data, new_data], ignore_index=True, sort=True).
Concat(old, new) ==
    [rows |-> old.rows \o new.rows, columns |-> sorted(old.columns)]

\* df[list(columns)]
SelectColumns(df, columns) == [df EXCEPT !.columns = columns]

\* Lines 267-272: the table a node's mechanism of the given model is fit
\* on.
FitData_AlwaysOwn(changed, model, old, new, joint) ==
    IF model = "old" THEN old ELSE new

FitData(changed, model, old, new, joint) ==
    IF changed
    THEN IF model = "old" THEN old ELSE new
    ELSE joint

\* fit_causal_model_of_target(model, node, data) on the mechanism store:
\* the node's mechanism is fit in place.
FitMechanism(h, g, node, df) ==
    [h EXCEPT ![causal_mechanism(g, node)] =
        Fitted(TrainingData(g, node, df))]

\* ... and on the graph: the parents' order of the fit is recorded.
FitAttributes(g, node) ==
    [g EXCEPT !.attr[node].PARENTS_DURING_FIT =
        Some(get_ordered_predecessors(g, node))]

InitChange ==
    /\ IdleTest
    /\ IdleScorer
    /\ IdleAttribution
    /\ IdleScreen
    /\ IdleFit
    /\ IdleScores
    /\ pc = "distribution_change"
    /\ api = "distribution_change"
    /\ graph_factory \in GraphFactoryKinds
    /\ auto_assignment_quality \in {None, Some("GOOD")}
    /\ fdr_control_method \in {None, Some("fdr_bh")}
    /\ \E s \in ChangeStructures, assigned \in BOOLEAN :
          /\ graphs = [NoGraphs EXCEPT
                         !.caller = Some(IF assigned THEN FittedModel(s, 0)
                                         ELSE s)]
          /\ heap = IF assigned THEN FittedMechanisms(s, "caller") ELSE <<>>
          /\ target_node \in Range(s.nodes)
          /\ \E n \in RowCounts :
                /\ old_data = Some(DataFrame("old", n, s.nodes))
                /\ new_data = Some(DataFrame("new", 3 - n, s.nodes))
    /\ IdleRegression

\* Lines 155-168: the two private models.
DistributionChangeBuild ==
    /\ pc = "distribution_change"
    /\ LET causal_graph_old ==
               GraphCopy(graph_factory,
                         node_connected_subgraph_view(graphs.caller[1],
                                                      target_node))
           old == AssignMechanisms(heap, graphs.caller[1], causal_graph_old,
                                   auto_assignment_quality)
           causal_graph_new == GraphCopy(graph_factory, old.graph)
           new == AssignMechanisms(old.heap, old.graph, causal_graph_new,
                                   auto_assignment_quality)
       IN  /\ graphs' = [graphs EXCEPT !.old = Some(old.graph),
                                       !.new = Some(new.graph)]
           /\ heap' = new.heap
    /\ pc' = "_fit_accounting_for_mechanism_change"
    /\ UNCHANGED <<api, target_node, graph_factory>>
    /\ UNCHANGED <<testVars, scorerVars, attributionVars, dataVars,
                   screenVars, fitVars, scoresVars>>
    /\ UNCHANGED regressionVars

\* Lines 170-179 and 254-262: the refit is entered with the two tables
\* restricted to the copies' columns and starts by screening the old graph.
FitScreen ==
    /\ pc = "_fit_accounting_for_mechanism_change"
    /\ old_data' = Some(SelectColumns(old_data[1], graphs.old[1].nodes))
    /\ new_data' = Some(SelectColumns(new_data[1], graphs.new[1].nodes))
    /\ screen_graph' = "old"
    /\ screener_runs' = screener_runs + 1
    /\ pc' = "screen"
    /\ UNCHANGED <<auto_assignment_quality, fdr_control_method, all_p_values,
                   screen_calls, mechanism_changed_for_node>>
    /\ UNCHANGED <<testVars, scorerVars, modelVars, attributionVars,
                   fitVars, scoresVars>>
    /\ UNCHANGED regressionVars

\* Line 264: the screener has returned; its locals are gone.
FitJoin ==
    /\ pc = "screened"
    /\ api = "distribution_change"
    /\ joint_data' = Some(Concat(old_data[1], new_data[1]))
    /\ all_p_values' = <<>>
    /\ screen_calls' = <<>>
    /\ pc' = "fit_loop"
    /\ UNCHANGED <<screen_graph, screener_runs, mechanism_changed_for_node,
                   fit_index, fit_calls>>
    /\ UNCHANGED <<testVars, scorerVars, modelVars, attributionVars,
                   dataVars, scoresVars>>
    /\ UNCHANGED regressionVars

\* Lines 266-272: one turn of the loop over causal_model_new.graph.nodes.
\* Fitting a node that has no mechanism raises.
FitNode ==
    /\ pc = "fit_loop"
    /\ fit_index < Len(graphs.new[1].nodes)
    /\ LET node == graphs.new[1].nodes[fit_index + 1]
           changed == mechanism_changed_for_node[1][node]
           data_old == FitData(changed, "old", old_data[1], new_data[1],
                               joint_data[1])
           data_new == FitData(changed, "new", old_data[1], new_data[1],
                               joint_data[1])
       IN  IF IsNone(graphs.old[1].attr[node].CAUSAL_MECHANISM)
           THEN /\ pc' = "raised"
                /\ UNCHANGED <<graphs, heap, fit_index, fit_calls>>
           ELSE /\ heap' = FitMechanism(
                              FitMechanism(heap, graphs.old[1], node,
                                           data_old),
                              graphs.new[1], node, data_new)
                /\ graphs' = [graphs EXCEPT
                                !.old = Some(FitAttributes(graphs.old[1],
                                                           node)),
                                !.new = Some(FitAttributes(graphs.new[1],
                                                           node))]
                /\ fit_calls' = fit_calls \o
                      <<[model |-> "old", node |-> node, data |-> data_old],
                        [model |-> "new", node |-> node, data |-> data_new]>>
                /\ fit_index' = fit_index + 1
                /\ pc' = pc
    /\ UNCHANGED <<api, target_node, graph_factory, joint_data>>
    /\ UNCHANGED <<testVars, scorerVars, attributionVars, dataVars,
                   screenVars, scoresVars>>
    /\ UNCHANGED regressionVars

\* Lines 274 and 181: the refit returns the decisions and the attribution
\* is entered with the two fitted models.
FitReturn ==
    /\ pc = "fit_loop"
    /\ fit_index = Len(graphs.new[1].nodes)
    /\ pc' = "distribution_change_of_graphs"
    /\ UNCHANGED <<testVars, scorerVars, modelVars, attributionVars,
                   dataVars, screenVars, fitVars, scoresVars>>
    /\ UNCHANGED regressionVars

\* Lines 190-193.
DistributionChangeReturn ==
    /\ pc = "attributions_returned"
    /\ api = "distribution_change"
    /\ pc' = "distribution_change_returned"
    /\ UNCHANGED <<testVars, scorerVars, modelVars, attributionVars,
                   dataVars, screenVars, fitVars, scoresVars>>
    /\ UNCHANGED regressionVars

NextChange ==
    \/ DistributionChangeBuild
    \/ FitScreen
    \/ ScreenNode
    \/ ScreenDecide
    \/ FitJoin
    \/ FitNode
    \/ FitReturn
    \/ DistributionChangeOfGraphs
    \/ AttributionSetFunction
    \/ ShapleyReturn
    \/ DistributionChangeReturn

SpecChange == InitChange /\ [][NextChange]_vars

----------------------------------------------------------------------------
(* estimate_distribution_change_scores *)

\* Values of max_num_evaluation_samples the scores are computed with.
ScoresEvaluationSamples == {1, 2}

\* Lines 378-394: how a node is scored.
ScoreKind_FlagIgnored(changed, root) ==
    IF root THEN "difference_estimation_func"
    ELSE "_estimate_distribution_change_score"

ScoreKind(changed, root) ==
    IF changed
    THEN IF root THEN "difference_estimation_func"
         ELSE "_estimate_distribution_change_score"
    ELSE "0"

\* A causal graph without nodes.
EmptyGraph == Graph(<<>>, <<>>)

\* results[node] = value
SetItem(dict, key, value) ==
    [k \in DOMAIN dict \cup {key} |-> IF k = key THEN value ELSE dict[k]]

InitScores ==
    /\ IdleTest
    /\ IdleAttribution
    /\ IdleScreen
    /\ IdleFit
    /\ IdleScores
    /\ pc = "estimate_distribution_change_scores"
    /\ api = "estimate_distribution_change_scores"
    /\ target_node = 0
    /\ graph_factory = ""
    /\ auto_assignment_quality = None
    /\ fdr_control_method \in {None, Some("fdr_bh")}
    /\ \E s \in Structures \cup {EmptyGraph} :
          /\ graphs = [NoGraphs EXCEPT !.caller = Some(FittedModel(s, 0))]
          /\ heap = FittedMechanisms(s, "caller")
          /\ \E n \in RowCounts :
                /\ old_data = Some(DataFrame("old", n, s.nodes))
                /\ new_data = Some(DataFrame("new", 3 - n, s.nodes))
    /\ max_num_evaluation_samples \in ScoresEvaluationSamples
    /\ early_stopping_percentage = 1
    /\ parent_original_data = <<>>
    /\ parent_new_data = <<>>
    /\ scorer_target_new_data = <<>>
    /\ causal_model_original = 0
    /\ joint_parent_samples = <<>>
    /\ result = 0
    /\ old_result = 0
    /\ run = 0
    /\ stopped = FALSE
    /\ difference_calls = <<>>
    /\ score = None
    /\ IdleRegression

\* Lines 362-372: validation, then the screener on the whole graph.
ScoresStart ==
    /\ pc = "estimate_distribution_change_scores"
    /\ IF validate_causal_dag(graphs.caller[1])
       THEN /\ screen_graph' = "caller"
            /\ screener_runs' = screener_runs + 1
            /\ pc' = "screen"
       ELSE /\ pc' = "raised"
            /\ UNCHANGED <<screen_graph, screener_runs>>
    /\ UNCHANGED <<all_p_values, screen_calls, mechanism_changed_for_node>>
    /\ UNCHANGED <<testVars, scorerVars, modelVars, attributionVars,
                   dataVars, fitVars, scoresVars>>
    /\ UNCHANGED regressionVars

\* Line 374: the screener has returned; its locals are gone.
ScoresResults ==
    /\ pc = "screened"
    /\ api = "estimate_distribution_change_scores"
    /\ results' = <<>>
    /\ all_p_values' = <<>>
    /\ screen_calls' = <<>>
    /\ pc' = "scores_loop"
    /\ UNCHANGED <<screen_graph, screener_runs, mechanism_changed_for_node,
                   scores_index, scores_calls>>
    /\ UNCHANGED <<testVars, scorerVars, modelVars, attributionVars,
                   dataVars, fitVars>>
    /\ UNCHANGED regressionVars

\* Lines 375-394: one turn of the loop over causal_model.graph.nodes, up to
\* the call of the conditional scorer if there is one.
ScoresNode ==
    /\ pc = "scores_loop"
    /\ scores_index < Len(graphs.caller[1].nodes)
    /\ LET graph == graphs.caller[1]
           node == graph.nodes[scores_index + 1]
           kind == ScoreKind(mechanism_changed_for_node[1][node],
                             is_root_node(graph, node))
       IN  CASE kind = "0" ->
                  /\ results' = SetItem(results, node, Quotient(0, 1))
                  /\ scores_index' = scores_index + 1
                  /\ UNCHANGED <<pc, scores_calls, scorerArgs>>
             [] kind = "difference_estimation_func" ->
                  \E d \in DiffValues :
                     /\ results' = SetItem(results, node, Quotient(d, 1))
                     /\ scores_calls' =
                           Append(scores_calls,
                                  [node |-> node, function |-> kind,
                                   args |-> <<ToNumpy(old_data[1], <<node>>),
                                              ToNumpy(new_data[1], <<node>>)>>,
                                   value |-> Some(Quotient(d, 1))])
                     /\ scores_index' = scores_index + 1
                     /\ UNCHANGED <<pc, scorerArgs>>
             [] kind = "_estimate_distribution_change_score" ->
                  LET parent_nodes == get_ordered_predecessors(graph, node)
                  IN  /\ parent_original_data' =
                            ToNumpy(old_data[1], parent_nodes)
                      /\ parent_new_data' = ToNumpy(new_data[1], parent_nodes)
                      /\ scorer_target_new_data' =
                            ToNumpy(new_data[1], <<node>>)
                      /\ causal_model_original' =
                            causal_mechanism(graph, node)
                      /\ scores_calls' =
                            Append(scores_calls,
                                   [node |-> node, function |-> kind,
                                    args |-> <<parent_original_data',
                                               parent_new_data',
                                               scorer_target_new_data',
                                               causal_model_original'>>,
                                    value |-> None])
                      /\ pc' = "score_start"
                      /\ UNCHANGED <<results, scores_index,
                                     max_num_evaluation_samples,
                                     early_stopping_percentage>>
    /\ UNCHANGED <<joint_parent_samples, result, old_result, run, stopped,
                   difference_calls, score>>
    /\ UNCHANGED <<testVars, modelVars, attributionVars, dataVars,
                   screenVars, fitVars>>
    /\ UNCHANGED regressionVars

\* Line 382: the conditional scorer has returned; its value is stored and
\* its locals are gone.
ScoresStore ==
    /\ pc = "score_returned"
    /\ api = "estimate_distribution_change_scores"
    /\ LET node == graphs.caller[1].nodes[scores_index + 1]
       IN  /\ results' = SetItem(results, node, score[1])
           /\ scores_calls' =
                 [scores_calls EXCEPT ![Len(scores_calls)].value = score]
    /\ scores_index' = scores_index + 1
    /\ parent_original_data' = <<>>
    /\ parent_new_data' = <<>>
    /\ scorer_target_new_data' = <<>>
    /\ causal_model_original' = 0
    /\ joint_parent_samples' = <<>>
    /\ result' = 0
    /\ old_result' = 0
    /\ run' = 0
    /\ stopped' = FALSE
    /\ difference_calls' = <<>>
    /\ score' = None
    /\ pc' = "scores_loop"
    /\ UNCHANGED <<max_num_evaluation_samples, early_stopping_percentage>>
    /\ UNCHANGED <<testVars, modelVars, attributionVars, dataVars,
                   screenVars, fitVars>>
    /\ UNCHANGED regressionVars

\* Line 396.
ScoresReturn ==
    /\ pc = "scores_loop"
    /\ scores_index = Len(graphs.caller[1].nodes)
    /\ pc' = "scores_returned"
    /\ UNCHANGED <<testVars, scorerVars, modelVars, attributionVars,
                   dataVars, screenVars, fitVars, scoresVars>>
    /\ UNCHANGED regressionVars

NextScores ==
    \/ ScoresStart
    \/ ScreenNode
    \/ ScreenDecide
    \/ ScoresResults
    \/ ScoresNode
    \/ ScorerStart
    \/ ScorerRow
    \/ ScorerReturn
    \/ ScoresStore
    \/ ScoresReturn

SpecScores == InitScores /\ [][NextScores]_vars

----------------------------------------------------------------------------
(* RegressionEstimator *)

\* Largest number of method calls made on the estimator.
MaxMethodCalls == 4

\* The data sets the estimator is fit on or asked to predict for.
DataSets == {"A", "B"}

\* Values of treatment_value and control_value.
TreatmentValues == {0, 1}

\* _build_model(): a regression model of the data the estimator holds.
BuildModel(data) == [data |-> data]

\* Lines 88-90 and 160-162: the model is built only if there is none yet.
ModelAfter_AlwaysBuilt(model, data) == Some(BuildModel(data))

ModelAfter(model, data) ==
    IF IsNone(model) THEN Some(BuildModel(data)) ELSE model

InitRegression ==
    /\ IdleTest
    /\ IdleScorer
    /\ IdleModel
    /\ IdleAttribution
    /\ IdlePipeline
    /\ IdleRegression
    /\ pc = "constructed"

\* Lines 56-76: fit stores the data; self.model is not touched.
Fit ==
    /\ method_calls < MaxMethodCalls
    /\ method_calls' = method_calls + 1
    /\ \E d \in DataSets : estimator' = [estimator EXCEPT !.data = Some(d)]
    /\ pc' = "returned"
    /\ UNCHANGED <<build_model_calls, estimate>>
    /\ UNCHANGED <<testVars, scorerVars, modelVars, attributionVars,
                   dataVars, screenVars, fitVars, scoresVars>>

\* Lines 78-113.  On an estimator that was never fit _build_model has no
\* data and the call fails after lines 81-83.
EstimateEffect ==
    /\ method_calls < MaxMethodCalls
    /\ method_calls' = method_calls + 1
    /\ \E t, c \in TreatmentValues :
          IF IsNone(estimator.data)
          THEN /\ estimator' = [estimator EXCEPT
                                  !.treatment_value = Some(t),
                                  !.control_value = Some(c)]
               /\ pc' = "AttributeError"
               /\ UNCHANGED <<build_model_calls, estimate>>
          ELSE LET model == ModelAfter(estimator.model, estimator.data[1])
               IN  /\ estimator' = [estimator EXCEPT
                                      !.treatment_value = Some(t),
                                      !.control_value = Some(c),
                                      !.model = model]
                   /\ build_model_calls' =
                         IF model = estimator.model THEN build_model_calls
                         ELSE build_model_calls + 1
                   /\ estimate' =
                         Some([by |-> "estimate_effect", model |-> model[1],
                               data |-> estimator.data[1],
                               treatment_value |-> Some(t),
                               control_value |-> Some(c)])
                   /\ pc' = "returned"
    /\ UNCHANGED <<testVars, scorerVars, modelVars, attributionVars,
                   dataVars, screenVars, fitVars, scoresVars>>

\* Lines 157-179, called with or without a data frame of its own.
Do ==
    /\ method_calls < MaxMethodCalls
    /\ method_calls' = method_calls + 1
    /\ \E t \in TreatmentValues,
          data_df \in {None} \cup {Some(d) : d \in DataSets} :
          IF IsNone(estimator.data)
          THEN /\ pc' = "AttributeError"
               /\ UNCHANGED <<estimator, build_model_calls, estimate>>
          ELSE LET model == ModelAfter(estimator.model, estimator.data[1])
                   df == IF IsNone(data_df) THEN estimator.data ELSE data_df
               IN  /\ estimator' = [estimator EXCEPT !.model = model]
                   /\ build_model_calls' =
                         IF model = estimator.model THEN build_model_calls
                         ELSE build_model_calls + 1
                   /\ estimate' =
                         Some([by |-> "_do", model |-> model[1],
                               data |-> df[1],
                               treatment_value |-> Some(t),
                               control_value |-> None])
                   /\ pc' = "returned"
    /\ UNCHANGED <<testVars, scorerVars, modelVars, attributionVars,
                   dataVars, screenVars, fitVars, scoresVars>>

NextRegression == Fit \/ EstimateEffect \/ Do

SpecRegression == InitRegression /\ [][NextRegression]_vars

----------------------------------------------------------------------------
(* Claims about mechanism_change_test, checked under SpecTest *)

\* C1: a call with parent data for exactly one of the two regimes raises a
\* ValueError at once: np.random.choice is never called and neither the
\* independence test nor the conditional independence test is invoked.
C1_AsymmetricParentsRaise ==
    (pc = "returned"
        /\ IsNone(parents_original_data) # IsNone(parents_new_data))
    => /\ test_call.raised = "ValueError"
       /\ test_call.choice_calls = 0
       /\ test_call.independence_calls = <<>>
       /\ test_call.conditional_calls = <<>>
       /\ IsNone(test_call.result)

C1_Witness ==
    /\ pc = "returned"
    /\ IsNone(parents_original_data)
    /\ ~IsNone(parents_new_data)
    /\ test_call.raised = "ValueError"

\* C2: a call with parent data for both regimes or for neither invokes
\* exactly one test function exactly once and returns its p-value as is:
\* without parents the independence test on (stacked target rows, labels),
\* with parents the conditional test on (stacked target rows, labels,
\* stacked parent rows); the other test is not called.
C2_ExactlyOneTestItsPValueReturned ==
    (pc = "returned"
        /\ IsNone(parents_original_data) = IsNone(parents_new_data))
    => LET c == test_call
           stackedTargets ==
               Take(target_original_data, c.original_indices)
                   \o Take(target_new_data, c.new_indices)
       IN  /\ c.raised = ""
           /\ Len(c.independence_calls) + Len(c.conditional_calls) = 1
           /\ IF IsNone(parents_original_data)
              THEN /\ Len(c.independence_calls) = 1
                   /\ c.independence_calls[1].X = stackedTargets
                   /\ Len(c.independence_calls[1].Y) = Len(stackedTargets)
                   /\ c.result = Some(c.independence_calls[1].p)
              ELSE /\ Len(c.conditional_calls) = 1
                   /\ c.conditional_calls[1].X = stackedTargets
                   /\ Len(c.conditional_calls[1].Y) = Len(stackedTargets)
                   /\ c.conditional_calls[1].Z =
                          Take(parents_original_data[1], c.original_indices)
                              \o Take(parents_new_data[1], c.new_indices)
                   /\ c.result = Some(c.conditional_calls[1].p)

C2_Witness ==
    /\ pc = "returned"
    /\ ~IsNone(parents_original_data)
    /\ ~IsNone(parents_new_data)
    /\ Len(test_call.conditional_calls) = 1
    /\ Len(target_original_data) # Len(target_new_data)
    /\ test_call.result = Some(test_call.conditional_calls[1].p)

----------------------------------------------------------------------------
(* Claims about the local scorer, checked under SpecScorer *)

Abs(x) == IF x < 0 THEN -x ELSE x

RECURSIVE SumValues(_)
SumValues(calls) ==
    IF calls = <<>> THEN 0
    ELSE calls[Len(calls)].value + SumValues(SubSeq(calls, 1, Len(calls) - 1))

\* The relative change of the running sum from `old` to `new` is at most
\* pct hundredths; against a zero baseline no relative change is defined.
RelativeChangeWithin(old, new, pct) ==
    /\ old # 0
    /\ Abs(new - old) * 100 <= pct * Abs(old)

\* C9 (as claimed): after a row's contribution is added the scorer stops
\* exactly when the running sum is nonzero and its relative change against
\* the sum before this row is at most early_stopping_percentage; otherwise
\* it goes on, and the first row never stops it.  Stated for the documented
\* use: a threshold that is not negative and differences that are not
\* negative.
C9_StopsIffRelativeChangeSmall ==
    (pc = "score_loop" /\ run >= 1
        /\ early_stopping_percentage >= 0
        /\ \A i \in 1..Len(difference_calls) : difference_calls[i].value >= 0)
    => /\ stopped <=>
            (result # 0
                /\ RelativeChangeWithin(old_result, result,
                                        early_stopping_percentage))
       /\ run = 1 => ~stopped

\* C10: for a non-empty pool the scorer returns the sum of the
\* difference_estimation_func values of the rows it processed over the
\* number of those rows, which are the first rows of the pool, at least 1
\* and at most min(|parents_old| + |parents_new|, max_eval_samples) of them.
C10_MeanOverProcessedRows ==
    (pc = "score_returned" /\ Len(joint_parent_samples) > 0)
    => /\ ~IsNone(score)
       /\ score[1].num = SumValues(difference_calls)
       /\ score[1].den = Len(difference_calls)
       /\ score[1].den >= 1
       /\ score[1].den <=
              Min(Len(parent_original_data) + Len(parent_new_data),
                  max_num_evaluation_samples)
       /\ \A i \in 1..Len(difference_calls) :
              difference_calls[i].row = joint_parent_samples[i]

\* Stopped early after two of three pooled rows.
C10_Witness ==
    /\ pc = "score_returned"
    /\ stopped
    /\ Len(joint_parent_samples) = 3
    /\ Len(difference_calls) = 2
    /\ score = Some([num |-> 4, den |-> 2])

----------------------------------------------------------------------------
(* Claims about the marginal-change attribution, checked under SpecGraphs *)

\* C4: every call of the set function on the all-zero coalition returns
\* exactly 0 and builds no hybrid model, draws no samples and does not call
\* difference_estimation_func.
C4_AllZeroCoalitionIsZero ==
    [][(evals' = evals + 1
          /\ \A i \in DOMAIN last_v'.subset : last_v'.subset[i] = 0)
       => /\ last_v'.value = 0
          /\ graphs' = graphs
          /\ hybrid_builds' = hybrid_builds
          /\ draw_samples_calls' = draw_samples_calls
          /\ difference_fn_calls' = difference_fn_calls]_vars

\* The all-zero coalition evaluated after a hybrid model had been built.
C4_Witness ==
    /\ evals = 2
    /\ hybrid_builds = 1
    /\ Len(last_v.subset) = 3
    /\ \A i \in DOMAIN last_v.subset : last_v.subset[i] = 0
    /\ last_v.value = 0

\* C5: no step of distribution_change_of_graphs changes the two models it
\* was given: every node keeps its mechanism object and its fit-time parent
\* order, and the mechanism objects themselves are not touched; the hybrid
\* assignments go to a graph object of their own.
C5_GivenModelsNotModified ==
    [][/\ graphs'.old = graphs.old
       /\ graphs'.new = graphs.new
       /\ \A m \in MechanismsOf(graphs.old[1]) \cup MechanismsOf(graphs.new[1]) :
             heap'[m] = heap[m]]_vars

\* A hybrid was built that gives some node its new mechanism, and the call
\* has returned.
C5_Witness ==
    /\ pc = "attributions_returned"
    /\ hybrid_builds >= 1
    /\ ~IsNone(graphs.hybrid)
    /\ \E n \in DOMAIN graphs.hybrid[1].attr :
          graphs.hybrid[1].attr[n].CAUSAL_MECHANISM
              = graphs.new[1].attr[n].CAUSAL_MECHANISM

\* C7: the returned mapping has one entry for the target and each of its
\* ancestors in the old graph and none for any other node, and a node's
\* entry is the estimator's component at the node's rank among those nodes,
\* which is the position the set function gives the node in a coalition.
C7_OneEntryPerPlayerAtItsIndex ==
    pc = "attributions_returned"
    => LET g == graphs.old[1]
           players == {n \in Range(g.nodes) :
                          n = target_node \/ n \in Ancestors(g, target_node)}
           rank(x) == Cardinality({y \in players : y <= x})
       IN  /\ ~IsNone(attributions)
           /\ DOMAIN attributions[1] = players
           /\ Len(shapley_values) = Cardinality(players)
           /\ \A x \in players :
                 /\ attributions[1][x] = shapley_values[rank(x)]
                 /\ v_nodes # <<>> => v_nodes[rank(x)] = x

\* A graph iterated out of order with a node that is no ancestor of the
\* target, and an estimate whose components differ.
C7_Witness ==
    /\ pc = "attributions_returned"
    /\ graphs.old[1].nodes = <<2, 1, 3>>
    /\ target_node = 1
    /\ v_nodes = <<1, 2>>
    /\ shapley_values = <<0, 7>>
    /\ DOMAIN attributions[1] = {1, 2}

----------------------------------------------------------------------------
(* Claims about distribution_change and the refit *)

\* The refit has just returned to distribution_change.
RefitReturned ==
    api = "distribution_change" /\ pc = "distribution_change_of_graphs"

\* The mechanism of `node` in graph g holds the fit on the given rows.
FitOnRows(g, node, rows) ==
    heap[causal_mechanism(g, node)].fit =
        Some(TrainingData(g, node, [rows |-> rows, columns |-> g.nodes]))

FitCallsOf(model, node) ==
    {i \in DOMAIN fit_calls :
        fit_calls[i].model = model /\ fit_calls[i].node = node}

\* C3: after the refit returns, a node flagged changed has its mechanism of
\* the old model fit on the old rows only and its mechanism of the new
\* model on the new rows only; a node flagged unchanged has both fit on
\* the old rows followed by the new rows, so the two fits are equal; every
\* node was fit exactly once in each model.
C3_RefitByFlag ==
    RefitReturned =>
        LET old == graphs.old[1]
            new == graphs.new[1]
            old_rows == old_data[1].rows
            new_rows == new_data[1].rows
        IN  \A node \in Range(old.nodes) :
              /\ mechanism_changed_for_node[1][node] =>
                    /\ FitOnRows(old, node, old_rows)
                    /\ FitOnRows(new, node, new_rows)
              /\ ~mechanism_changed_for_node[1][node] =>
                    /\ FitOnRows(old, node, old_rows \o new_rows)
                    /\ FitOnRows(new, node, old_rows \o new_rows)
                    /\ heap[causal_mechanism(old, node)].fit =
                          heap[causal_mechanism(new, node)].fit
              /\ Cardinality(FitCallsOf("old", node)) = 1
              /\ Cardinality(FitCallsOf("new", node)) = 1

\* A three-node refit with a changed non-root node and an unchanged node.
C3_Witness ==
    /\ RefitReturned
    /\ Len(graphs.old[1].nodes) = 3
    /\ \E a, b \in Range(graphs.old[1].nodes) :
          /\ mechanism_changed_for_node[1][a]
          /\ ~is_root_node(graphs.old[1], a)
          /\ ~mechanism_changed_for_node[1][b]
          /\ ~is_root_node(graphs.old[1], b)

\* While the refit runs, the old copy, the new copy and the caller's model
\* have no mechanism object in common.
NoMechanismShared ==
    (api = "distribution_change"
       /\ pc \in {"_fit_accounting_for_mechanism_change", "screen",
                  "screened", "fit_loop"}) =>
        /\ MechanismsOf(graphs.old[1]) \cap MechanismsOf(graphs.new[1]) = {}
        /\ MechanismsOf(graphs.old[1]) \cap MechanismsOf(graphs.caller[1])
              = {}
        /\ MechanismsOf(graphs.new[1]) \cap MechanismsOf(graphs.caller[1])
              = {}

\* A step leaves the caller's graph, its mechanism assignment and the
\* state of each of its mechanisms as they were.
CallerModelKept ==
    /\ graphs'.caller = graphs.caller
    /\ \A m \in MechanismsOf(graphs.caller[1]) : heap'[m] = heap[m]

\* C6: distribution_change never replaces or refits a mechanism of the
\* caller's model, whatever auto_assignment_quality is, and during the
\* refit no mechanism object is shared between the old copy, the new copy
\* and the caller's model.
C6_OnlyPrivateCopiesFit == []NoMechanismShared /\ [][CallerModelKept]_vars

\* A changed node has been fit in the cloned copies, on different data in
\* each, and the caller's mechanism of that node still holds its own fit.
C6_Witness ==
    /\ api = "distribution_change"
    /\ pc = "fit_loop"
    /\ IsNone(auto_assignment_quality)
    /\ \E i \in 1..fit_index :
          LET node == graphs.new[1].nodes[i]
          IN  /\ mechanism_changed_for_node[1][node]
              /\ heap[causal_mechanism(graphs.old[1], node)].fit #
                    heap[causal_mechanism(graphs.new[1], node)].fit
              /\ heap[causal_mechanism(graphs.caller[1], node)] =
                    Fitted(TrainingData(graphs.caller[1], node,
                                        DataFrame("caller", 1,
                                                  graphs.caller[1].nodes)))

----------------------------------------------------------------------------
(* Claims about estimate_distribution_change_scores *)

ScoresCallsFor(node) ==
    {i \in DOMAIN scores_calls : scores_calls[i].node = node}

\* The rows of table df restricted to the given columns.
Cells(df, cols) ==
    [i \in 1..Len(df.rows) |->
        [src |-> df.rows[i].src, row |-> df.rows[i].row, cols |-> cols]]

\* C8: the returned mapping has exactly one entry per node of the graph; a
\* node not flagged changed has score 0 and neither difference_fn nor the
\* conditional scorer was called for it; a flagged root has the value of
\* one call of difference_fn on its old and new columns; a flagged
\* non-root has the value of one call of the conditional scorer on its
\* ordered parents' columns; the screener ran exactly once, and before
\* any node was scored.
C8_ScoresByFlagAndRoot ==
    /\ (api = "estimate_distribution_change_scores"
          /\ (scores_calls # <<>> \/ scores_index > 0)) =>
          /\ screener_runs = 1
          /\ ~IsNone(mechanism_changed_for_node)
    /\ (api = "estimate_distribution_change_scores"
          /\ pc = "scores_returned") =>
          LET graph == graphs.caller[1]
              changed == mechanism_changed_for_node[1]
          IN  /\ screener_runs = 1
              /\ DOMAIN results = Range(graph.nodes)
              /\ \A node \in Range(graph.nodes) :
                    /\ ~changed[node] =>
                          /\ results[node] = [num |-> 0, den |-> 1]
                          /\ ScoresCallsFor(node) = {}
                    /\ (changed[node] /\ graph.parents[node] = <<>>) =>
                          \E i \in DOMAIN scores_calls :
                             /\ ScoresCallsFor(node) = {i}
                             /\ scores_calls[i].function =
                                   "difference_estimation_func"
                             /\ scores_calls[i].args =
                                   <<Cells(old_data[1], <<node>>),
                                     Cells(new_data[1], <<node>>)>>
                             /\ scores_calls[i].value = Some(results[node])
                    /\ (changed[node] /\ graph.parents[node] # <<>>) =>
                          \E i \in DOMAIN scores_calls :
                             /\ ScoresCallsFor(node) = {i}
                             /\ scores_calls[i].function =
                                   "_estimate_distribution_change_score"
                             /\ scores_calls[i].args =
                                   <<Cells(old_data[1], graph.parents[node]),
                                     Cells(new_data[1], graph.parents[node]),
                                     Cells(new_data[1], <<node>>),
                                     graph.attr[node].CAUSAL_MECHANISM[1]>>
                             /\ scores_calls[i].value = Some(results[node])

\* A returned mapping for the collider 2 -> 3 <- 1: root 2 flagged, root 1
\* not flagged, node 3 flagged and scored from more than one pooled row.
C8_Witness ==
    /\ api = "estimate_distribution_change_scores"
    /\ pc = "scores_returned"
    /\ Len(graphs.caller[1].nodes) = 3
    /\ graphs.caller[1].parents[3] = <<2, 1>>
    /\ mechanism_changed_for_node[1][2]
    /\ ~mechanism_changed_for_node[1][1]
    /\ mechanism_changed_for_node[1][3]
    /\ results[3].den = 2
    /\ results[2].num # 0

----------------------------------------------------------------------------
(* Claims about _check_significant_mechanism_change *)

\* The screener has decided and its caller has not resumed yet.
ScreenerDecided == pc = "screened"

\* C11: with no FDR method, the screener flags a node changed if and only
\* if the node's own p-value is at most the significance level, the
\* boundary included, whatever the other nodes' p-values are.
C11_UncorrectedDecisionPerNode ==
    (ScreenerDecided /\ fdr_control_method = <<>>) =>
        \A i \in 1..Len(graphs[screen_graph][1].nodes) :
            mechanism_changed_for_node[1][graphs[screen_graph][1].nodes[i]]
                <=> all_p_values[i] <= 5

\* Without correction a node with a p-value on the boundary is flagged
\* next to one that is not; Benjamini-Hochberg would flag neither.
C11_Witness ==
    /\ ScreenerDecided
    /\ fdr_control_method = <<>>
    /\ \E i, j \in 1..Len(all_p_values) :
          /\ all_p_values[i] = 5
          /\ all_p_values[j] = 30
          /\ mechanism_changed_for_node[1][graphs[screen_graph][1].nodes[i]]
          /\ ~mechanism_changed_for_node[1][graphs[screen_graph][1].nodes[j]]

\* C12: on a graph without nodes the screener does not fail and returns
\* the empty mapping, with the FDR method unset as well as with one set.
C12_EmptyGraphGivesEmptyMapping ==
    (/\ screen_graph # ""
     /\ pc # "screen"
     /\ Len(graphs[screen_graph][1].nodes) = 0) =>
        /\ pc # "ZeroDivisionError"
        /\ ~IsNone(mechanism_changed_for_node)
        /\ DOMAIN mechanism_changed_for_node[1] = {}

\* C13: the screener calls the mechanism-change test once per node, in
\* the graph's iteration order: for a root without parent data, for a
\* non-root with the old and the new columns of its parents in the
\* ordered-predecessor order; the i-th p-value and the i-th decision belong
\* to the i-th node, and the returned keys are the graph's nodes.
C13_OneTestPerNodeInIterationOrder ==
    (pc \in {"screen", "screened"}) =>
        LET graph == graphs[screen_graph][1]
            old == old_data[1]
            new == new_data[1]
        IN  /\ Len(screen_calls) = Len(all_p_values)
            /\ Len(screen_calls) <= Len(graph.nodes)
            /\ \A i \in 1..Len(screen_calls) :
                  LET node == graph.nodes[i]
                      call == screen_calls[i]
                  IN  /\ call.args.node = node
                      /\ call.args.target_original_data =
                            Cells(old, <<node>>)
                      /\ call.args.target_new_data = Cells(new, <<node>>)
                      /\ IF graph.parents[node] = <<>>
                         THEN /\ call.args.parents_original_data = <<>>
                              /\ call.args.parents_new_data = <<>>
                              /\ call.test = "independence_test"
                         ELSE /\ call.args.parents_original_data =
                                    <<Cells(old, graph.parents[node])>>
                              /\ call.args.parents_new_data =
                                    <<Cells(new, graph.parents[node])>>
                              /\ call.test = "conditional_independence_test"
            /\ pc = "screened" =>
                  /\ Len(screen_calls) = Len(graph.nodes)
                  /\ DOMAIN mechanism_changed_for_node[1] =
                        {graph.nodes[i] : i \in 1..Len(graph.nodes)}
                  /\ \A i \in 1..Len(graph.nodes) :
                        mechanism_changed_for_node[1][graph.nodes[i]] =
                            Successes(all_p_values, 5, fdr_control_method)[i]

\* The collider 2 -> 3 <- 1, iterated 2, 3, 1, whose node 3 declares its
\* parents as 2, 1: three tests, two of them flagging, the last one not.
C13_Witness ==
    /\ pc = "screened"
    /\ Len(graphs[screen_graph][1].nodes) = 3
    /\ graphs[screen_graph][1].parents[3] = <<2, 1>>
    /\ all_p_values = <<4, 1, 30>>
    /\ mechanism_changed_for_node[1][2]
    /\ mechanism_changed_for_node[1][3]
    /\ ~mechanism_changed_for_node[1][1]

----------------------------------------------------------------------------
(* Claims about the hybrid model of attribution_set_function *)

\* The last call of the set function built a hybrid model.
HybridBuilt ==
    /\ ~IsNone(graphs.hybrid)
    /\ \E i \in 1..Len(last_v.subset) : last_v.subset[i] = 1

\* C14: for a coalition that is not all zero the hybrid model gives every
\* node, taken in sorted order, the new model's mechanism of that node if
\* the node's bit is 1 and the old model's mechanism of that node if it is
\* 0; every node has a mechanism and none has another node's.
C14_HybridMechanismPerBit ==
    HybridBuilt =>
        LET hybrid == graphs.hybrid[1]
            order == SortSeq(hybrid.nodes, LAMBDA a, b : a < b)
        IN  /\ Len(last_v.subset) = Len(order)
            /\ DOMAIN hybrid.attr = {order[i] : i \in 1..Len(order)}
            /\ \A i \in 1..Len(order) :
                  /\ hybrid.attr[order[i]].CAUSAL_MECHANISM # <<>>
                  /\ hybrid.attr[order[i]].CAUSAL_MECHANISM =
                        IF last_v.subset[i] = 1
                        THEN graphs.new[1].attr[order[i]].CAUSAL_MECHANISM
                        ELSE graphs.old[1].attr[order[i]].CAUSAL_MECHANISM

\* A hybrid over three nodes iterated out of sorted order, with a mixed
\* coalition.
C14_Witness ==
    /\ HybridBuilt
    /\ Len(graphs.hybrid[1].nodes) = 3
    /\ graphs.hybrid[1].nodes # SortSeq(graphs.hybrid[1].nodes,
                                        LAMBDA a, b : a < b)
    /\ last_v.subset = <<1, 0, 1>>

----------------------------------------------------------------------------
(* Claims about the samples and labels of mechanism_change_test *)

\* mechanism_change_test has returned from a call of one of the tests.
TestInvoked == pc = "returned" /\ test_call.raised = ""

\* The arguments of that call.
InvokedTest ==
    IF test_call.independence_calls # <<>>
    THEN test_call.independence_calls[1]
    ELSE test_call.conditional_calls[1]

SmallerSize ==
    IF Len(target_original_data) <= Len(target_new_data)
    THEN Len(target_original_data) ELSE Len(target_new_data)

\* k distinct row numbers of a data set of n rows.
DistinctRows(indices, k, n) ==
    /\ Len(indices) = k
    /\ \A i \in 1..k : indices[i] \in 1..n
    /\ \A i, j \in 1..k : indices[i] = indices[j] => i = j

\* The label vector has length 2n, n the smaller of the two sizes, its
\* first n entries are old_label and its last n new_label, and n distinct
\* rows were drawn from each data set.
BalancedLabels(old_label, new_label) ==
    TestInvoked =>
        /\ Len(InvokedTest.Y) = 2 * SmallerSize
        /\ \A k \in 1..SmallerSize : InvokedTest.Y[k] = old_label
        /\ \A k \in (SmallerSize + 1)..(2 * SmallerSize) :
              InvokedTest.Y[k] = new_label
        /\ DistinctRows(test_call.original_indices, SmallerSize,
                        Len(target_original_data))
        /\ DistinctRows(test_call.new_indices, SmallerSize,
                        Len(target_new_data))

\* C15, amended: the label vector is balanced, of length 2n with
\* n = min(|old|, |new|); its first n labels are the string "1.0" and its
\* last n the string "-1.0" (np.ones gives floats, which astype(str)
\* renders with their decimal point); the n rows of each data set are
\* drawn without replacement.
C15_BalancedLabelsAsRendered == BalancedLabels("1.0", "-1.0")

\* C15 as stated: the same, with the labels "1" and "-1".
C15_BalancedLabelsOneMinusOne == BalancedLabels("1", "-1")

\* Two rows out of three old ones, not the first two in order, against
\* both new rows.
C15_Witness ==
    /\ TestInvoked
    /\ Len(target_original_data) = 3
    /\ Len(target_new_data) = 2
    /\ test_call.original_indices = <<3, 1>>
    /\ InvokedTest.Y = <<"1.0", "1.0", "-1.0", "-1.0">>

\* C16: the stacked targets, the labels and, with parents given, the
\* stacked parents are aligned row by row: at every position the target
\* row and the parent row are the same row of the same data set, the old
\* one exactly where the label is the old label and the new one exactly
\* where it is the new label.
C16_RowsAligned ==
    TestInvoked =>
        /\ Len(InvokedTest.X) = Len(InvokedTest.Y)
        /\ \A k \in 1..Len(InvokedTest.Y) :
              /\ InvokedTest.X[k].src = "old" <=> InvokedTest.Y[k] = "1.0"
              /\ InvokedTest.X[k].src = "new" <=> InvokedTest.Y[k] = "-1.0"
              /\ InvokedTest.X[k].cols = <<"y">>
        /\ test_call.conditional_calls # <<>> =>
              /\ Len(InvokedTest.Z) = Len(InvokedTest.Y)
              /\ \A k \in 1..Len(InvokedTest.Y) :
                    /\ InvokedTest.Z[k].src = InvokedTest.X[k].src
                    /\ InvokedTest.Z[k].row = InvokedTest.X[k].row
                    /\ InvokedTest.Z[k].cols = <<"x">>

\* A conditional test on rows drawn out of order from both data sets.
C16_Witness ==
    /\ TestInvoked
    /\ test_call.conditional_calls # <<>>
    /\ test_call.original_indices = <<2, 3, 1>>
    /\ test_call.new_indices = <<3, 1, 2>>
    /\ InvokedTest.Z[1].row = 2
    /\ InvokedTest.Z[4].row = 3

----------------------------------------------------------------------------
(* Claims about the early stop of the local scorer *)

\* The running sum after the first k processed rows.
RunningSum(k) == SumValues(SubSeq(difference_calls, 1, k))

\* Row k is the first one that leaves the running sum nonzero.
FirstNonzeroAt(k) ==
    /\ RunningSum(k) # 0
    /\ \A j \in 1..(k - 1) : RunningSum(j) = 0

----------------------------------------------------------------------------
(* Claims about RegressionEstimator *)

\* At most one model was built, and what was last returned came from the
\* model the estimator holds.
BuiltAtMostOnce ==
    /\ build_model_calls <= 1
    /\ estimate # <<>> =>
          /\ estimator.model # <<>>
          /\ estimate[1].model = estimator.model[1]

\* A step leaves a model that is set as it is.
ModelKept == estimator.model # <<>> => estimator'.model = estimator.model

\* C18: an estimator builds its regression model at most once: once
\* self.model is set by estimate_effect or _do, no later fit,
\* estimate_effect or _do rebuilds or resets it, so an estimate made after
\* a second fit on other data still uses the model built from the data of
\* the earlier fit.
C18_ModelBuiltAtMostOnce == []BuiltAtMostOnce /\ [][ModelKept]_vars

\* Fit on A, estimated, fit on B, estimated again: the estimate is for
\* data B from the model of data A.
C18_Witness ==
    /\ estimator.data = <<"B">>
    /\ estimator.model = <<[data |-> "A"]>>
    /\ build_model_calls = 1
    /\ estimate # <<>>
    /\ estimate[1].by = "estimate_effect"
    /\ estimate[1].data = "B"
    /\ estimate[1].model = [data |-> "A"]

====
